---- MODULE Spec2Model ----
(***************************************************************************)
(* A model of the IntelliDocs retrieval pipeline (Django side):            *)
(*   documents/processors.py, documents/tasks*.py   ingestion (chunking)   *)
(*   embeddings/embeddings.py, embeddings/tasks*.py embedding and search   *)
(*   rag/pipelines.py, api/views.py, api/serializers.py sessions, queries  *)
(*                                                                         *)
(* Database tables are sequences of rows; a row's primary key is its       *)
(* position.  A file's text is abstracted to its number of words; a chunk  *)
(* of it is the half-open word range <<lo, hi>>.  Similarities are fixed-  *)
(* point numbers in units of 1/Scale.                                      *)
(***************************************************************************)
EXTENDS Integers, Sequences, FiniteSets, TLC

\* ------------------------------------------------------------------ bounds
MaxDocs == 2
MaxSessions == 1
MaxRequests == 1
MaxUpdates == 1
MaxTasks == 3
MaxWorkers == 2
MaxVecs == 3
MaxSentences == 3
MaxSources == 2

\* ------------------------------------------------------- program constants
DefaultChunkSize == 1000
DefaultOverlap == 200
batch_size == 100
max_retries == 3
DefaultTopK == 10
DefaultThreshold == 50
Scale == 100
PreviewChars == 200

Users == {"u1", "u2"}
EMBEDDING_MODEL == "all-MiniLM-L6-v2"
OtherModel == "other-model"
ModelNames == {EMBEDDING_MODEL, OtherModel}

\* The word counts of the files that get uploaded: an empty (or whitespace-
\* only) text, a text of one chunk, and a text of two overlapping chunks.
WordCounts == {0, 500, 900}
QueryTexts == {"qa", "qb"}

\* The external embedding models' possible weights (what SentenceTransformer
\* (name) hands out); None is the cache's miss.
Weights == {1, 2}
None == 0

VARIABLES
    documents,      \* table documents: [user, processing_status, words]
    chunks,         \* table document_chunks: [document, chunk_index, lo, hi]
    embeddings,     \* table document_embeddings
    sessions,       \* table rag_sessions: [user, documents]
    queries,        \* table rag_queries
    rag_config,     \* table rag_configurations: user -> row, where one exists
    cache,          \* django cache: model name -> loaded weights or None
    hub,            \* the weights a fresh SentenceTransformer(name) loads
    requests,       \* query requests in flight and answered (with history)
    updates,        \* number of update_config calls made
    tasks,          \* Celery: the task instances (queued, running, ended)
    workers,        \* concurrent embedding runs / model loads, per worker
    calls,          \* direct calls of the library functions, with results
    flask_documents,  \* Flask table document: [row, status, embedding_path]
    threads,          \* process_document_async thread of each upload
    embedding_files,  \* ids d with a file embeddings/<d>.pkl on disk
    chat_sessions,    \* Flask table chat_session, by document id
    chat_messages,    \* Flask table chat_message: [session, is_user, chat]
    chats,            \* api_chat calls: [document, session, state]
    rate_limit,       \* django cache entries rate_limit:<ip> (absent = 0)
    admitted,         \* per ip, requests passed on since the entry expired
    http              \* requests inside RateLimitMiddleware.process_request

dbVars == <<documents, chunks, embeddings>>
ragVars == <<sessions, queries, rag_config, requests, updates>>
modelVars == <<cache, hub>>
flaskVars == <<flask_documents, threads, embedding_files, chat_sessions,
               chat_messages, chats>>
limitVars == <<rate_limit, admitted, http>>
webVars == <<flaskVars, limitVars>>
djangoVars == <<documents, chunks, embeddings, sessions, queries, rag_config,
                cache, hub, requests, updates, tasks, workers, calls>>
vars == <<documents, chunks, embeddings, sessions, queries, rag_config,
          cache, hub, requests, updates, tasks, workers, calls,
          flask_documents, threads, embedding_files, chat_sessions,
          chat_messages, chats, rate_limit, admitted, http>>

\* The Flask tables empty, no upload, no chat; no request in the rate
\* limiter and no counter in the cache.
ClientIPs == {"10.0.0.1", "10.0.0.2"}

FlaskEmpty ==
    /\ flask_documents = <<>>
    /\ threads = <<>>
    /\ embedding_files = {}
    /\ chat_sessions = {}
    /\ chat_messages = {}
    /\ chats = <<>>

LimiterQuiet ==
    /\ rate_limit = [ip \in ClientIPs |-> 0]
    /\ admitted = [ip \in ClientIPs |-> 0]
    /\ http = <<>>

WebQuiet == FlaskEmpty /\ LimiterQuiet

\* ------------------------------------------------------------- utilities
Min(a, b) == IF a < b THEN a ELSE b

Range(s) == {s[i] : i \in DOMAIN s}

\* The members of a set of positions, in ascending order.
Ascending(S) ==
    [k \in 1..Cardinality(S) |->
        CHOOSE i \in S : Cardinality({j \in S : j < i}) = k - 1]

\* ------------------------------------------------------- chunking (pure)
\* range(0, n, step) of Python, for step > 0, as the sequence of its values.
RangeStarts(n, step) ==
    [k \in 1..((n + step - 1) \div step) |-> (k - 1) * step]

\* The non-empty word slices words[i:i + chunk_size] that _create_chunks
\* turns into chunks, in emission order.
ChunkSpans(n, chunk_size, overlap) ==
    LET starts == RangeStarts(n, chunk_size - overlap)
    IN  [k \in DOMAIN starts |-> <<starts[k], Min(starts[k] + chunk_size, n)>>]

\* ----------------------------------------------------- ingestion (tables)
\* unique_together = ['document', 'chunk_index'] of DocumentChunk.
ChunkExists(chs, d, idx) ==
    \E i \in DOMAIN chs : chs[i].document = d /\ chs[i].chunk_index = idx

\* The loop of _create_chunks from its k-th span on: one
\* DocumentChunk.objects.create per span, chunk_index = len(chunks) = k - 1
\* (every span is non-empty); the first IntegrityError ends the loop and the
\* rows created before it stay (autocommit).
RECURSIVE CreateChunkRows(_, _, _, _)
CreateChunkRows(chs, d, spans, k) ==
    IF k > Len(spans) THEN [chunks |-> chs, ok |-> TRUE]
    ELSE IF ChunkExists(chs, d, k - 1) THEN [chunks |-> chs, ok |-> FALSE]
    ELSE CreateChunkRows(
             Append(chs, [document |-> d, chunk_index |-> k - 1,
                          lo |-> spans[k][1], hi |-> spans[k][2]]),
             d, spans, k + 1)

\* DocumentProcessor.process_document: 'processing', extract the text,
\* _create_chunks with its default sizes, then 'completed'; any exception
\* sets 'failed' and is raised again (ok = FALSE).
ProcessDocument(chs, d, words, extractOk) ==
    IF ~extractOk THEN [chunks |-> chs, status |-> "failed", ok |-> FALSE]
    ELSE LET r == CreateChunkRows(
                      chs, d,
                      ChunkSpans(words, DefaultChunkSize, DefaultOverlap), 1)
         IN  [chunks |-> r.chunks,
              status |-> IF r.ok THEN "completed" ELSE "failed",
              ok |-> r.ok]

\* ------------------------------------------------------------- embedding
\* model.encode: the external model, a fixed function of its weights and of
\* the text.  Texts are told apart by a code: a query's, or the chunk's
\* document and position.
Palette == << <<1, 0>>, <<1, 1>>, <<0, 1>> >>

Encode(w, code) == Palette[((code + w) % Len(Palette)) + 1]

QueryCode(q) == IF q = "qa" THEN 0 ELSE 1

ChunkCode(ch) ==
    ch.document + (ch.lo \div (DefaultChunkSize - DefaultOverlap))

\* EmbeddingGenerator._load_model: the cached model, or a fresh load that
\* is then cached.  [model: what the generator holds, cache: the cache after]
LoadModel(c, h, name) ==
    IF c[name] # None THEN [model |-> c[name], cache |-> c]
    ELSE [model |-> h, cache |-> [c EXCEPT ![name] = h]]

\* document.chunks.all().order_by('chunk_index'): the chunk ids of d.
DocChunkIds(chs, d) == {i \in DOMAIN chs : chs[i].document = d}

ChunksOrdered(chs, d) ==
    LET ids == DocChunkIds(chs, d)
    IN  [k \in 1..Cardinality(ids) |->
            CHOOSE i \in ids :
                Cardinality({j \in ids :
                    chs[j].chunk_index < chs[i].chunk_index}) = k - 1]

\* The rows of document_embeddings for (chunk, embedding_model).
EmbeddingsFor(embs, c, name) ==
    {i \in DOMAIN embs : embs[i].chunk = c /\ embs[i].embedding_model = name}

\* DocumentEmbedding.objects.get_or_create(..., defaults={'embedding_vector':
\* vec}): an existing row is returned as it is; only a missing one is created.
GetOrCreate(embs, d, c, name, vec) ==
    IF EmbeddingsFor(embs, c, name) # {} THEN embs
    ELSE Append(embs, [document |-> d, chunk |-> c, embedding_model |-> name,
                       embedding_vector |-> vec])

\* (for C22) a batch encoder that hands its vectors back in reverse order
GenerateEmbeddingsBatchReversed(w, codes) ==
    [k \in DOMAIN codes |-> Encode(w, codes[Len(codes) + 1 - k])]

\* generate_embeddings_batch(texts): model.encode(texts), one vector per
\* text, in the order of the texts.
GenerateEmbeddingsBatch(w, codes) ==
    [k \in DOMAIN codes |-> Encode(w, codes[k])]

\* for chunk, embedding in zip(batch_chunks, batch_embeddings): get_or_create.
\* The chunks of a batch are distinct, so the loop appends, in batch order,
\* a row for every pair whose chunk has none yet.
SaveBatch(embs, d, batch_chunks, batch_embeddings, name) ==
    LET pairs == 1..Min(Len(batch_chunks), Len(batch_embeddings))
        missing == Ascending({k \in pairs :
                       EmbeddingsFor(embs, batch_chunks[k], name) = {}})
    IN  embs \o [j \in DOMAIN missing |->
                    [document |-> d, chunk |-> batch_chunks[missing[j]],
                     embedding_model |-> name,
                     embedding_vector |-> batch_embeddings[missing[j]]]]

\* for i in range(0, len(chunks), batch_size), from the b-th batch on;
\* failBatch is the batch whose generate_embeddings_batch raises (0: none).
RECURSIVE EmbedBatches(_, _, _, _, _, _, _, _)
EmbedBatches(embs, chs, d, list, b, w, name, failBatch) ==
    IF (b - 1) * batch_size >= Len(list)
    THEN [embeddings |-> embs, ok |-> TRUE]
    ELSE IF b = failBatch THEN [embeddings |-> embs, ok |-> FALSE]
    ELSE LET batch_chunks == SubSeq(list, (b - 1) * batch_size + 1,
                                    Min(b * batch_size, Len(list)))
             batch_texts == [k \in DOMAIN batch_chunks |->
                                ChunkCode(chs[batch_chunks[k]])]
         IN  EmbedBatches(
                 SaveBatch(embs, d, batch_chunks,
                           GenerateEmbeddingsBatch(w, batch_texts), name),
                 chs, d, list, b + 1, w, name, failBatch)

\* EmbeddingService.create_embeddings_for_document with the model's weights
\* w.  The batches before a failing one are saved; the exception is raised
\* (ok = FALSE).  count is the length of the list returned.
CreateEmbeddingsForDocument(embs, chs, d, w, name, failBatch) ==
    LET list == ChunksOrdered(chs, d)
        r == EmbedBatches(embs, chs, d, list, 1, w, name, failBatch)
    IN  [embeddings |-> r.embeddings,
         ok |-> r.ok,
         count |-> IF r.ok THEN Len(list) ELSE 0]

\* ------------------------------------------------------------ similarity
Dot(a, b) == a[1] * b[1] + a[2] * b[2]

\* float('nan'), kept apart from every similarity in [-Scale, Scale].
NaN == 2 * Scale

\* np.dot(v, q) / (norm(v) * norm(q)) in units of 1/Scale, rounded towards
\* zero; 0/0 is nan (numpy warns and goes on).
Cosine(q, v) ==
    LET n == Dot(q, q) * Dot(v, v)
        d == Dot(v, q)
    IN  IF n = 0 THEN NaN
        ELSE LET mag == CHOOSE s \in 0..Scale :
                            /\ s * s * n <= Scale * Scale * d * d
                            /\ (s + 1) * (s + 1) * n > Scale * Scale * d * d
             IN  IF d < 0 THEN 0 - mag ELSE mag

\* Python's a >= b on floats: false when either side is nan.
FloatGE(a, b) == a # NaN /\ b # NaN /\ a >= b

\* np.argsort(similarities)[::-1]: ascending, nan last, equal values in
\* index order (the sort of a short array is an insertion sort), reversed.
\* j comes before i in the reversed order:
ArgsortReversedBefore(sims, j, i) ==
    sims[j] > sims[i] \/ (sims[j] = sims[i] /\ j > i)

\* Python's seq[:k] on a sequence of length n: the number of items it keeps
\* (a negative k counts from the end).
SliceEnd(n, k) ==
    IF k >= 0 THEN Min(k, n) ELSE IF n + k > 0 THEN n + k ELSE 0

\* EmbeddingGenerator.similarity_search: [index, similarity, rank] of the
\* top_k best, index being the position in document_embeddings (from 1).
SimilaritySearch(qv, vecs, top_k) ==
    LET sims == [i \in DOMAIN vecs |-> Cosine(qv, vecs[i])]
        at(p) == CHOOSE i \in DOMAIN vecs :
                     Cardinality({j \in DOMAIN vecs :
                         ArgsortReversedBefore(sims, j, i)}) = p - 1
    IN  [p \in 1..SliceEnd(Len(vecs), top_k) |->
            [index |-> at(p), similarity |-> sims[at(p)], rank |-> p]]

\* The rows search_similar_chunks reads: `if document_ids:` filters only for
\* a non-empty list.
ScopedEmbeddings(embs, document_ids) ==
    Ascending({i \in DOMAIN embs :
        document_ids = {} \/ embs[i].document \in document_ids})

\* EmbeddingService.search_similar_chunks, after the query was embedded as qv.
SearchSimilarChunks(embs, chs, qv, document_ids, top_k) ==
    LET rows == ScopedEmbeddings(embs, document_ids)
        vecs == [k \in DOMAIN rows |-> embs[rows[k]].embedding_vector]
        res == SimilaritySearch(qv, vecs, top_k)
    IN  IF rows = <<>> THEN <<>>
        ELSE [p \in DOMAIN res |->
                 LET e == embs[rows[res[p].index]]
                 IN  [document_id |-> e.document,
                      chunk_id |-> e.chunk,
                      chunk_index |-> chs[e.chunk].chunk_index,
                      similarity_score |-> res[p].similarity,
                      rank |-> res[p].rank]]

\* ----------------------------------------------------------- RAGPipeline
\* The defaults of _get_user_config (temperature in tenths).
DefaultConfig(u) ==
    [user |-> u, model_name |-> EMBEDDING_MODEL, chunk_size |-> DefaultChunkSize,
     chunk_overlap |-> DefaultOverlap, max_tokens |-> 2048, temperature |-> 7,
     top_k |-> DefaultTopK, similarity_threshold |-> DefaultThreshold]

\* RAGConfiguration.objects.get_or_create(user=..., defaults=...): the table
\* after it.
GetUserConfig(cfgs, u) ==
    IF u \in DOMAIN cfgs THEN cfgs ELSE (u :> DefaultConfig(u)) @@ cfgs

\* The loop of update_config: setattr for every key the object has.
MergeConfig(cfg, kwargs) ==
    [f \in DOMAIN cfg |-> IF f \in DOMAIN kwargs THEN kwargs[f] ELSE cfg[f]]

\* The keyword arguments update_config is called with.
KwargsSet ==
    {[top_k |-> 1], [similarity_threshold |-> 90],
     [model_name |-> OtherModel], [theme |-> 1], [user |-> "u2"]}

\* self.config.save() for the row of u after the merge.  The row's owner is
\* one of its attributes: a changed owner moves the row, or fails on the
\* one-to-one constraint when the new owner has a row already.
SaveRaises(cfgs, u, merged) ==
    merged.user # u /\ merged.user \in DOMAIN cfgs

SaveConfig(cfgs, u, merged) ==
    IF SaveRaises(cfgs, u, merged) THEN cfgs
    ELSE [w \in (DOMAIN cfgs \ {u}) \cup {merged.user} |->
             IF w = merged.user THEN merged ELSE cfgs[w]]

\* Document.objects.filter(id__in=document_ids, user=user), as a set of ids.
OwnedDocuments(docs, ids, u) ==
    {d \in ids : d \in DOMAIN docs /\ docs[d].user = u}

\* The session create_session makes for the ids it was called with
\* (requested: the ids of the call, kept for the record).
SessionRow(docs, u, ids) ==
    [user |-> u, documents |-> OwnedDocuments(docs, ids, u), requested |-> ids]

\* RAGService.get_session_by_id: the session, or None.
GetSessionById(ss, sid, u) ==
    IF sid \in DOMAIN ss /\ ss[sid].user = u THEN sid ELSE None

\* (for C12) a filter that drops the candidates at the threshold too
FilterStrictlyAbove(similar, threshold) ==
    LET kept == Ascending({p \in DOMAIN similar :
                    similar[p].similarity_score # NaN
                    /\ similar[p].similarity_score > threshold})
    IN  [k \in DOMAIN kept |-> similar[kept[k]]]

\* The filter of process_query by the similarity threshold.
FilterChunks(similar, threshold) ==
    LET kept == Ascending({p \in DOMAIN similar :
                    FloatGE(similar[p].similarity_score, threshold)})
    IN  [k \in DOMAIN kept |-> similar[kept[k]]]

\* _generate_response: the fixed answer for no chunks, else the composed
\* one; an exception while composing is answered by the apology text.
GenerateResponse(context_chunks, composeRaises) ==
    IF context_chunks = <<>> THEN "no_relevant_information"
    ELSE IF composeRaises THEN "error_generating_response"
    ELSE "based_on_documents"

\* RAGPipeline.process_query from the retrieved candidates on: the row of
\* rag_queries it creates.
QueryRow(sid, q, similar, cfg, composeRaises) ==
    LET filtered == FilterChunks(similar, cfg.similarity_threshold)
    IN  [session |-> sid, query_text |-> q,
         response_text |-> GenerateResponse(filtered, composeRaises),
         sources |-> filtered,
         metadata |-> [chunks_found |-> Len(similar),
                       chunks_used |-> Len(filtered),
                       config |-> [top_k |-> cfg.top_k,
                                   similarity_threshold |->
                                       cfg.similarity_threshold,
                                   model_name |-> cfg.model_name]]]

\* A call recorded in `calls`: pending, returned with a result, or raised.
Call(fn, args) ==
    [fn |-> fn, args |-> args, done |-> FALSE, raised |-> FALSE,
     result |-> None]

Returned(c, result) == [c EXCEPT !.done = TRUE, !.result = result]

Raised(c) == [c EXCEPT !.done = TRUE, !.raised = TRUE]

\* ------------------------------------------------------- handlers (local)
NoRequest == [state |-> "none"]

\* What the stages of one query can raise (input of the environment).
QueryFaults == {"none", "embed", "retrieve", "compose", "persist"}
IngestFaults == {"none", "extract", "load", "embed"}

\* DocumentUploadView.post, up to the new row: Document.objects.create with
\* processing_status at its default.
Upload(u, n) ==
    /\ Len(documents) < MaxDocs
    /\ documents' = Append(documents,
           [user |-> u, processing_status |-> "pending", words |-> n])
    /\ UNCHANGED <<webVars, calls, chunks, embeddings, ragVars, modelVars, tasks, workers>>

\* process_document_sync(document_id): chunk, then embed, in one call; any
\* exception marks the document 'failed'.
ProcessDocumentSync(d, fault) ==
    /\ d \in DOMAIN documents
    /\ LET p == ProcessDocument(chunks, d, documents[d].words,
                                fault # "extract")
           \* generate_embeddings_for_document_sync: EmbeddingService()
           m == LoadModel(cache, hub, EMBEDDING_MODEL)
           e == CreateEmbeddingsForDocument(
                    embeddings, p.chunks, d, m.model, EMBEDDING_MODEL,
                    IF fault = "embed" THEN 1 ELSE 0)
           loaded == p.ok /\ fault # "load"
       IN  /\ chunks' = p.chunks
           /\ cache' = IF loaded THEN m.cache ELSE cache
           /\ embeddings' = IF loaded THEN e.embeddings ELSE embeddings
           /\ documents' = [documents EXCEPT ![d].processing_status =
                  IF loaded /\ e.ok THEN "completed" ELSE "failed"]
    /\ UNCHANGED <<webVars, calls, ragVars, hub, tasks, workers>>

\* RAGPipeline.create_session (RAGSessionSerializer.create filters the same
\* way): the session row first, then the caller's documents among the ids.
CreateSession(u, ids) ==
    /\ Len(sessions) < MaxSessions
    /\ sessions' = Append(sessions, SessionRow(documents, u, ids))
    /\ UNCHANGED <<webVars, calls, dbVars, queries, rag_config, requests, updates,
                   modelVars, tasks, workers>>

\* RAGPipeline(user).update_config(**kwargs): __init__ loads the model and
\* the caller's configuration, the loop merges, save() writes the row.
UpdateConfig(u, kwargs) ==
    /\ updates < MaxUpdates
    /\ updates' = updates + 1
    /\ cache' = LoadModel(cache, hub, EMBEDDING_MODEL).cache
    /\ LET got == GetUserConfig(rag_config, u)
           merged == MergeConfig(got[u], kwargs)
           call == Call("update_config", [user |-> u, kwargs |-> kwargs])
       IN  /\ rag_config' = SaveConfig(got, u, merged)
           /\ calls' = IF SaveRaises(got, u, merged)
                       THEN <<Raised(call)>>
                       ELSE <<Returned(call, merged)>>
    /\ UNCHANGED <<webVars, dbVars, sessions, queries, requests, hub, tasks, workers>>

\* RAGQueryView.post up to RAGPipeline(request.user): 404 for a session that
\* is not the caller's; else the pipeline object, holding the loaded model
\* and its own copy of the caller's configuration row.
QueryBegin(u, sid, q) ==
    /\ Len(requests) < MaxRequests
    /\ IF GetSessionById(sessions, sid, u) = None
       THEN /\ requests' = Append(requests,
                   [state |-> "done", user |-> u, session |-> sid,
                    query_text |-> q, status |-> 404, failed |-> "none",
                    row |-> 0])
            /\ UNCHANGED <<webVars, calls, rag_config, cache>>
       ELSE LET m == LoadModel(cache, hub, EMBEDDING_MODEL)
                cfgs == GetUserConfig(rag_config, u)
            IN  /\ cache' = m.cache
                /\ rag_config' = cfgs
                /\ requests' = Append(requests,
                       [state |-> "running", user |-> u, session |-> sid,
                        query_text |-> q, model |-> m.model,
                        config |-> cfgs[u]])
    /\ UNCHANGED <<webVars, calls, dbVars, sessions, queries, updates, hub, tasks, workers>>

\* (for C6) a search that answers an embedding error with no results
RaisesButEmbedding(fault) == fault \in {"retrieve", "persist"}

\* The exceptions process_query hands on to the view (`except: raise` in
\* search_similar_chunks and in process_query); _generate_response keeps its
\* own.
Raises(fault) == fault \in {"embed", "retrieve", "persist"}

\* RAGPipeline.process_query for request r, and the view's answer.  An
\* exception from the embedding, the search or the insert is raised to the
\* view (500); one from composing is swallowed by _generate_response.
QueryRun(r, fault) ==
    /\ r \in DOMAIN requests
    /\ requests[r].state = "running"
    /\ LET req == requests[r]
           qv == Encode(req.model, QueryCode(req.query_text))
           similar == SearchSimilarChunks(
                          embeddings, chunks, qv,
                          sessions[req.session].documents, req.config.top_k)
           row == QueryRow(req.session, req.query_text, similar, req.config,
                           fault = "compose")
           composing == FilterChunks(similar,
                            req.config.similarity_threshold) # <<>>
           raised == Raises(fault)
           done == [state |-> "done", user |-> req.user,
                    session |-> req.session, query_text |-> req.query_text,
                    status |-> IF raised THEN 500 ELSE 200,
                    failed |-> fault,
                    row |-> IF raised THEN 0 ELSE Len(queries) + 1,
                    embedded_with |-> EMBEDDING_MODEL,
                    candidates |-> IF raised THEN <<>> ELSE similar,
                    config |-> req.config]
       IN  /\ fault = "compose" => composing
           /\ queries' = IF raised THEN queries ELSE Append(queries, row)
           /\ requests' = [requests EXCEPT ![r] = done]
    /\ UNCHANGED <<webVars, calls, dbVars, sessions, rag_config, updates, modelVars,
                   tasks, workers>>

\* ------------------------------------------------------------ the corpus
\* The files of a deployment, in upload order: [user, words, processed].
\* processed tells whether process_document_sync has run for the file.
File(u, n, p) == [user |-> u, words |-> n, processed |-> p]

Corpora ==
    { <<>>,
      <<File("u1", 900, TRUE), File("u2", 500, TRUE)>>,
      <<File("u2", 900, TRUE), File("u1", 0, TRUE)>>,
      <<File("u1", 500, TRUE), File("u1", 500, FALSE)>> }

EmptyDb == [documents |-> <<>>, chunks |-> <<>>, embeddings |-> <<>>]

\* The tables after the uploads of a corpus, each followed (when processed)
\* by a faultless process_document_sync with the model's weights w.
RECURSIVE Ingested(_, _, _)
Ingested(db, corpus, w) ==
    IF corpus = <<>> THEN db
    ELSE LET f == Head(corpus)
             d == Len(db.documents) + 1
             p == ProcessDocument(db.chunks, d, f.words, TRUE)
             e == CreateEmbeddingsForDocument(
                      db.embeddings, p.chunks, d, w, EMBEDDING_MODEL, 0)
         IN  Ingested(
                 [documents |-> Append(db.documents,
                      [user |-> f.user, words |-> f.words,
                       processing_status |->
                           IF f.processed THEN p.status ELSE "pending"]),
                  chunks |-> IF f.processed THEN p.chunks ELSE db.chunks,
                  embeddings |->
                      IF f.processed THEN e.embeddings ELSE db.embeddings],
                 Tail(corpus), w)

\* ------------------------------------------------------ the query service
\* The deployment serving sessions and queries over an ingested corpus.
Init ==
    /\ WebQuiet
    /\ hub = 1
    /\ \E corpus \in Corpora :
           LET db == Ingested(EmptyDb, corpus, hub)
           IN  /\ documents = db.documents
               /\ chunks = db.chunks
               /\ embeddings = db.embeddings
               /\ cache = [m \in ModelNames |->
                      IF m = EMBEDDING_MODEL
                         /\ \E i \in DOMAIN corpus : corpus[i].processed
                      THEN hub ELSE None]
    /\ sessions = <<>>
    /\ queries = <<>>
    /\ rag_config = [u \in {} |-> None]
    /\ requests = <<>>
    /\ updates = 0
    /\ tasks = <<>>
    /\ calls = <<>>
    /\ workers = <<>>

Next ==
    \/ \E u \in Users, ids \in SUBSET (1..MaxDocs) : CreateSession(u, ids)
    \/ \E u \in Users, kw \in KwargsSet : UpdateConfig(u, kw)
    \/ \E u \in Users, sid \in 1..MaxSessions, q \in QueryTexts :
           QueryBegin(u, sid, q)
    \/ \E r \in 1..MaxRequests, f \in QueryFaults : QueryRun(r, f)

Spec == Init /\ [][Next]_vars

\* ---------------------------------------------------- the ingestion side
\* The deployment before its first upload.
InitIngest ==
    /\ WebQuiet
    /\ documents = <<>>
    /\ chunks = <<>>
    /\ embeddings = <<>>
    /\ sessions = <<>>
    /\ queries = <<>>
    /\ rag_config = [u \in {} |-> None]
    /\ cache = [m \in ModelNames |-> None]
    /\ hub = 1
    /\ requests = <<>>
    /\ updates = 0
    /\ tasks = <<>>

InitStore ==
    /\ InitIngest
    /\ workers = <<>>

InitEmpty ==
    /\ InitStore
    /\ calls = <<>>

NextIngest ==
    \/ \E u \in Users, n \in WordCounts : Upload(u, n)
    \/ \E d \in 1..MaxDocs, f \in IngestFaults : ProcessDocumentSync(d, f)

SpecIngest == InitEmpty /\ [][NextIngest]_vars

\* ------------------------------------------------------ handlers (Celery)
\* X.delay(document_id): a new task instance in the queue.
Delay(ts, kind, d) ==
    Append(ts, [kind |-> kind, document |-> d, retries |-> 0,
                state |-> "queued", fault |-> "none"])

\* The `except Exception` of both tasks: self.retry while
\* self.request.retries < self.max_retries, else the task fails for good.
CanRetry(t) == t.retries < max_retries

AfterException(t, fault) ==
    IF CanRetry(t)
    THEN [t EXCEPT !.retries = @ + 1, !.state = "queued", !.fault = fault]
    ELSE [t EXCEPT !.state = "failure", !.fault = fault]

\* DocumentUploadView.post: the new row, then process_document_task.delay.
UploadAndQueue(u, n) ==
    /\ Len(documents) < MaxDocs
    /\ Len(tasks) < MaxTasks
    /\ documents' = Append(documents,
           [user |-> u, processing_status |-> "pending", words |-> n])
    /\ tasks' = Delay(tasks, "process", Len(documents) + 1)
    /\ UNCHANGED <<webVars, calls, chunks, embeddings, ragVars, modelVars, workers>>

\* DocumentViewSet.reprocess: 404 for a document that is not the caller's,
\* 400 for one that is 'processing' (neither changes anything); else
\* 'pending' and process_document_task.delay.
Reprocess(u, d) ==
    /\ d \in DOMAIN documents
    /\ documents[d].user = u
    /\ documents[d].processing_status # "processing"
    /\ Len(tasks) < MaxTasks
    /\ documents' = [documents EXCEPT ![d].processing_status = "pending"]
    /\ tasks' = Delay(tasks, "process", d)
    /\ UNCHANGED <<webVars, calls, chunks, embeddings, ragVars, modelVars, workers>>

\* process_document_task, first part: a worker takes the task and
\* process_document saves 'processing'.
ProcessTaskStart(t) ==
    /\ t \in DOMAIN tasks
    /\ tasks[t].kind = "process"
    /\ tasks[t].state = "queued"
    /\ tasks' = [tasks EXCEPT ![t].state = "running"]
    /\ documents' = [documents EXCEPT
           ![tasks[t].document].processing_status = "processing"]
    /\ UNCHANGED <<webVars, calls, chunks, embeddings, ragVars, modelVars, workers>>

\* process_document_task, the rest: extract and chunk; on success
\* 'completed' and generate_embeddings_for_document.delay; on an exception
\* 'failed' (process_document's own except) and a retry or the final failure.
ProcessTaskFinish(t, fault) ==
    /\ t \in DOMAIN tasks
    /\ tasks[t].kind = "process"
    /\ tasks[t].state = "running"
    /\ LET d == tasks[t].document
           p == ProcessDocument(chunks, d, documents[d].words,
                                fault # "extract")
       IN  /\ chunks' = p.chunks
           /\ documents' = [documents EXCEPT
                  ![d].processing_status = p.status]
           /\ tasks' =
                  IF p.ok
                  THEN Delay([tasks EXCEPT ![t].state = "success",
                                           ![t].fault = fault],
                             "embed", d)
                  ELSE [tasks EXCEPT ![t] = AfterException(tasks[t], fault)]
    /\ UNCHANGED <<webVars, calls, embeddings, ragVars, modelVars, workers>>

\* generate_embeddings_for_document: EmbeddingService(), then
\* create_embeddings_for_document; an exception is retried and at last
\* raised, and the document is not touched.
EmbedTaskRun(t, fault) ==
    /\ t \in DOMAIN tasks
    /\ tasks[t].kind = "embed"
    /\ tasks[t].state = "queued"
    /\ LET d == tasks[t].document
           m == LoadModel(cache, hub, EMBEDDING_MODEL)
           e == CreateEmbeddingsForDocument(
                    embeddings, chunks, d, m.model, EMBEDDING_MODEL,
                    IF fault = "embed" THEN 1 ELSE 0)
       IN  /\ cache' = m.cache
           /\ embeddings' = e.embeddings
           /\ tasks' = [tasks EXCEPT ![t] =
                  IF e.ok THEN [@ EXCEPT !.state = "success", !.fault = fault]
                  ELSE AfterException(@, fault)]
    /\ UNCHANGED <<webVars, calls, documents, chunks, ragVars, hub, workers>>

NextCelery ==
    \/ \E u \in Users, n \in WordCounts : UploadAndQueue(u, n)
    \/ \E u \in Users, d \in 1..MaxDocs : Reprocess(u, d)
    \/ \E t \in 1..MaxTasks : ProcessTaskStart(t)
    \/ \E t \in 1..MaxTasks, f \in {"none", "extract"} :
           ProcessTaskFinish(t, f)
    \/ \E t \in 1..MaxTasks, f \in {"none", "embed"} : EmbedTaskRun(t, f)

SpecCelery == InitEmpty /\ [][NextCelery]_vars

\* ------------------------------------------- concurrent embedding workers
\* Worker processes (gunicorn or Celery) that run the same code at once.
\* The `workers` variable holds, per worker, where it is in the call.
Idle == [pc |-> "idle"]

\* (for C4) a table without the unique constraint
NoUniqueConstraint(embs, c, name) == FALSE

\* The DB's check of unique_together = ['chunk', 'embedding_model'] at an
\* INSERT into document_embeddings.
UniqueViolation(embs, c, name) == EmbeddingsFor(embs, c, name) # {}

\* The files behind a model name change (a new revision on the hub, a local
\* model path overwritten): a later load gets other weights.
HubUpdate ==
    /\ \E w \in Weights \ {hub} : hub' = w
    /\ UNCHANGED <<webVars, calls, dbVars, ragVars, cache, tasks, workers>>

\* cache.set(cache_key, self.model, timeout=3600): the entry expires.
CacheExpire(name) ==
    /\ cache[name] # None
    /\ cache' = [cache EXCEPT ![name] = None]
    /\ UNCHANGED <<webVars, calls, dbVars, ragVars, hub, tasks, workers>>

\* create_embeddings_for_document(document), up to the save loop:
\* EmbeddingService() loads the model, the chunks are listed and their one
\* batch is encoded.
EmbedStart(w, d) ==
    /\ workers[w].pc = "idle"
    /\ d \in DOMAIN documents
    /\ LET m == LoadModel(cache, hub, EMBEDDING_MODEL)
           list == ChunksOrdered(chunks, d)
       IN  /\ cache' = m.cache
           /\ workers' = [workers EXCEPT ![w] =
                  IF list = <<>> THEN Idle
                  ELSE [pc |-> "get", document |-> d, model |-> m.model,
                        list |-> list, k |-> 1]]
    /\ UNCHANGED <<webVars, calls, dbVars, ragVars, hub, tasks>>

\* The worker after get_or_create returned for its k-th chunk.
NextChunk(wk) ==
    IF wk.k = Len(wk.list) THEN Idle
    ELSE [wk EXCEPT !.pc = "get", !.k = @ + 1]

\* get_or_create, the SELECT: a row that is there is returned as it is.
EmbedGet(w) ==
    /\ workers[w].pc = "get"
    /\ LET wk == workers[w]
       IN  workers' = [workers EXCEPT ![w] =
               IF EmbeddingsFor(embeddings, wk.list[wk.k],
                                EMBEDDING_MODEL) # {}
               THEN NextChunk(wk)
               ELSE [wk EXCEPT !.pc = "create"]]
    /\ UNCHANGED <<webVars, calls, dbVars, ragVars, modelVars, tasks>>

\* get_or_create, the INSERT: an IntegrityError makes it read the row the
\* other writer stored, and return that.
EmbedCreate(w) ==
    /\ workers[w].pc = "create"
    /\ LET wk == workers[w]
           c == wk.list[wk.k]
       IN  /\ embeddings' =
                  IF UniqueViolation(embeddings, c, EMBEDDING_MODEL)
                  THEN embeddings
                  ELSE Append(embeddings,
                           [document |-> wk.document, chunk |-> c,
                            embedding_model |-> EMBEDDING_MODEL,
                            embedding_vector |->
                                Encode(wk.model, ChunkCode(chunks[c]))])
           /\ workers' = [workers EXCEPT ![w] = NextChunk(wk)]
    /\ UNCHANGED <<webVars, calls, documents, chunks, ragVars, modelVars, tasks>>

\* The tables once the process tasks of a corpus are through and its
\* embedding tasks are still to run.
InitIndex ==
    /\ WebQuiet
    /\ hub = 1
    /\ \E corpus \in Corpora :
           LET db == Ingested(EmptyDb, corpus, hub)
           IN  /\ documents = db.documents
               /\ chunks = db.chunks
    /\ embeddings = <<>>
    /\ cache = [m \in ModelNames |-> None]
    /\ workers = [w \in 1..MaxWorkers |-> Idle]
    /\ sessions = <<>>
    /\ queries = <<>>
    /\ rag_config = [u \in {} |-> None]
    /\ requests = <<>>
    /\ updates = 0
    /\ tasks = <<>>
    /\ calls = <<>>

NextIndex ==
    \/ HubUpdate
    \/ CacheExpire(EMBEDDING_MODEL)
    \/ \E w \in 1..MaxWorkers, d \in 1..MaxDocs : EmbedStart(w, d)
    \/ \E w \in 1..MaxWorkers : EmbedGet(w)
    \/ \E w \in 1..MaxWorkers : EmbedCreate(w)

SpecIndex == InitIndex /\ [][NextIndex]_vars

\* ---------------------------------------------- concurrent model loading
\* EmbeddingGenerator(name).__init__ up to cache.get(cache_key): a hit makes
\* the generator ready, a miss sends it to load the model itself.
GeneratorInit(w, name) ==
    /\ workers[w].pc = "idle"
    /\ workers' = [workers EXCEPT ![w] =
           IF cache[name] # None
           THEN [pc |-> "ready", name |-> name, model |-> cache[name],
                 did_load |-> FALSE]
           ELSE [pc |-> "miss", name |-> name, model |-> None,
                 did_load |-> FALSE]]
    /\ UNCHANGED <<webVars, calls, dbVars, ragVars, modelVars, tasks>>

\* self.model = SentenceTransformer(self.model_name)
LoadStep(w) ==
    /\ workers[w].pc = "miss"
    /\ workers' = [workers EXCEPT ![w] =
           [@ EXCEPT !.pc = "loaded", !.model = hub, !.did_load = TRUE]]
    /\ UNCHANGED <<webVars, calls, dbVars, ragVars, modelVars, tasks>>

\* The load raises: _load_model logs and raises, no generator is made.
LoadFails(w) ==
    /\ workers[w].pc = "miss"
    /\ workers' = [workers EXCEPT ![w] = Idle]
    /\ UNCHANGED <<webVars, calls, dbVars, ragVars, modelVars, tasks>>

\* cache.set(cache_key, self.model, timeout=3600)
CacheSet(w) ==
    /\ workers[w].pc = "loaded"
    /\ cache' = [cache EXCEPT ![workers[w].name] = workers[w].model]
    /\ workers' = [workers EXCEPT ![w].pc = "ready"]
    /\ UNCHANGED <<webVars, calls, dbVars, ragVars, hub, tasks>>

InitLoad ==
    /\ InitIngest
    /\ calls = <<>>
    /\ workers = [w \in 1..MaxWorkers |-> Idle]

NextLoad ==
    \/ HubUpdate
    \/ \E w \in 1..MaxWorkers, name \in ModelNames : GeneratorInit(w, name)
    \/ \E w \in 1..MaxWorkers : LoadStep(w)
    \/ \E w \in 1..MaxWorkers : LoadFails(w)
    \/ \E w \in 1..MaxWorkers : CacheSet(w)

SpecLoad == InitLoad /\ [][NextLoad]_vars

\* ------------------------------------------- queries over a fixed service
\* The calls that set a service up before its queries: create_session calls
\* and update_config calls, in order.
SessionPlans ==
    { <<[user |-> "u1", ids |-> {1}]>>,
      <<[user |-> "u2", ids |-> {1, 2}], [user |-> "u1", ids |-> {1, 2}]>>,
      <<[user |-> "u1", ids |-> {}]>> }

ConfigPlans ==
    { <<>>,
      <<[user |-> "u1", kwargs |-> [top_k |-> 1]]>>,
      <<[user |-> "u2", kwargs |-> [similarity_threshold |-> 90]]>>,
      <<[user |-> "u1", kwargs |-> [similarity_threshold |-> 0]]>>,
      <<[user |-> "u1", kwargs |-> [top_k |-> -1]]>> }

RECURSIVE Configured(_, _)
Configured(cfgs, plan) ==
    IF plan = <<>> THEN cfgs
    ELSE LET u == Head(plan).user
             got == GetUserConfig(cfgs, u)
         IN  Configured(
                 [got EXCEPT ![u] = MergeConfig(got[u], Head(plan).kwargs)],
                 Tail(plan))

InitQuery ==
    /\ WebQuiet
    /\ hub = 1
    /\ \E corpus \in Corpora, sp \in SessionPlans, cp \in ConfigPlans :
           LET db == Ingested(EmptyDb, corpus, hub)
           IN  /\ documents = db.documents
               /\ chunks = db.chunks
               /\ embeddings = db.embeddings
               /\ sessions = [k \in DOMAIN sp |->
                      SessionRow(db.documents, sp[k].user, sp[k].ids)]
               /\ rag_config = Configured([u \in {} |-> None], cp)
    /\ cache = [m \in ModelNames |->
           IF m = EMBEDDING_MODEL THEN hub ELSE None]
    /\ queries = <<>>
    /\ requests = <<>>
    /\ updates = 0
    /\ tasks = <<>>
    /\ calls = <<>>
    /\ workers = <<>>

NextQuery ==
    \/ \E u \in Users, sid \in 1..MaxSessions, q \in QueryTexts :
           QueryBegin(u, sid, q)
    \/ \E r \in 1..MaxRequests, f \in QueryFaults : QueryRun(r, f)

SpecQuery == InitQuery /\ [][NextQuery]_vars

\* ------------------------------------------ the library, called directly
\* The functions of the core called by hand (as the tests do), one call per
\* behaviour: `calls` holds the call, and its result once it returned.
\* Embedding vectors handed to similarity_search: the model's, and the zero
\* vector.
Vectors == Range(Palette) \cup {<<0, 0>>}

VectorLists == UNION {[1..n -> Vectors] : n \in 0..MaxVecs}

SimilaritySearchCalls ==
    {Call("similarity_search",
          [query_embedding |-> q, document_embeddings |-> vs, top_k |-> k]) :
        q \in Vectors, vs \in VectorLists, k \in {1, 2, 10}}

\* generator.similarity_search(query_embedding, document_embeddings, top_k).
\* For an empty list np.array([]) has shape (0,): np.dot with the query
\* raises ValueError, which the function logs and raises again.
SimilaritySearchCall ==
    /\ calls # <<>>
    /\ calls[1].fn = "similarity_search"
    /\ ~calls[1].done
    /\ calls' =
           IF calls[1].args.document_embeddings = <<>>
           THEN <<Raised(calls[1])>>
           ELSE <<Returned(calls[1],
                      SimilaritySearch(calls[1].args.query_embedding,
                                       calls[1].args.document_embeddings,
                                       calls[1].args.top_k))>>
    /\ UNCHANGED <<webVars, dbVars, ragVars, modelVars, tasks, workers>>

\* The lengths (in characters) of the chunk texts that get formatted.
ContentLengths == {1, 200, 201, 500}

ContentLists == UNION {[1..n -> ContentLengths] : n \in 0..MaxSources}

Ellipsis == <<".", ".", ".">>

\* content[:200] + "..." if len(content) > 200 else content, for a content
\* of n characters: the preview's length, and whether it is the whole text.
Preview(n) ==
    IF n > PreviewChars
    THEN [length |-> PreviewChars + Len(Ellipsis), whole |-> FALSE]
    ELSE [length |-> n, whole |-> TRUE]

\* RAGPipeline._format_sources (and the source list of rag_engine's
\* _generate_simple_response): one entry per chunk, in order.
FormatSources(contents) ==
    [k \in DOMAIN contents |->
        [content_length |-> contents[k], preview |-> Preview(contents[k])]]

FormatSourcesCalls ==
    {Call("_format_sources", [chunks |-> cs]) : cs \in ContentLists}

FormatSourcesCall ==
    /\ calls # <<>>
    /\ calls[1].fn = "_format_sources"
    /\ ~calls[1].done
    /\ calls' = <<Returned(calls[1], FormatSources(calls[1].args.chunks))>>
    /\ UNCHANGED <<webVars, dbVars, ragVars, modelVars, tasks, workers>>

\* RAGEngine.generate_response after retrieve_relevant_chunks returned
\* `relevant` (the texts' lengths): the dict it answers with.
EngineGenerateResponse(models_loaded, relevant) ==
    IF ~models_loaded
    THEN [success |-> FALSE, error |-> "Models not loaded",
          response |-> "", sources |-> <<>>]
    ELSE IF relevant = <<>>
    THEN [success |-> FALSE, error |-> "No relevant information found",
          response |-> "", sources |-> <<>>]
    ELSE [success |-> TRUE, error |-> "",
          response |-> "based_on_documents",
          sources |-> FormatSources(relevant)]

GenerateResponseCalls ==
    {Call("generate_response", [models_loaded |-> l, relevant |-> cs]) :
        l \in BOOLEAN, cs \in ContentLists}

GenerateResponseCall ==
    /\ calls # <<>>
    /\ calls[1].fn = "generate_response"
    /\ ~calls[1].done
    /\ calls' = <<Returned(calls[1],
                     EngineGenerateResponse(calls[1].args.models_loaded,
                                            calls[1].args.relevant))>>
    /\ UNCHANGED <<webVars, dbVars, ragVars, modelVars, tasks, workers>>

\* The document _create_chunks is called for by hand: a row without a file,
\* the text being passed separately.
CallDocument == [user |-> "u1", processing_status |-> "pending", words |-> 0]

\* range(0, n, chunk_size - overlap) of _create_chunks for any step: a step
\* of 0 raises ValueError, a negative one gives no value.
CreateChunkSpans(n, chunk_size, overlap) ==
    IF chunk_size - overlap > 0 THEN ChunkSpans(n, chunk_size, overlap)
    ELSE <<>>

CreateChunksCalls ==
    {Call("_create_chunks",
          [words |-> n, chunk_size |-> cs, overlap |-> ov]) :
        n \in {0, 1, 5}, cs \in {2, 4}, ov \in {0, 1, 2, 4, 5}}

\* processor._create_chunks(text, document, chunk_size, overlap) for the
\* first document, none of whose chunks exists yet.
CreateChunksCall ==
    /\ calls # <<>>
    /\ calls[1].fn = "_create_chunks"
    /\ ~calls[1].done
    /\ LET a == calls[1].args
           r == CreateChunkRows(
                    chunks, 1,
                    CreateChunkSpans(a.words, a.chunk_size, a.overlap), 1)
       IN  IF a.chunk_size - a.overlap = 0
           THEN calls' = <<Raised(calls[1])>> /\ chunks' = chunks
           ELSE calls' = <<Returned(calls[1], r.chunks)>>
                /\ chunks' = r.chunks
    /\ UNCHANGED <<webVars, documents, embeddings, ragVars, modelVars, tasks, workers>>

\* ---- RAGEngine.text_splitter.  A sentence (an item of text.split(". "),
\* stripped) is modelled by its length in characters, 0 for an empty one; a
\* page is the sequence of its sentences.
RECURSIVE SumSeq(_)
SumSeq(q) == IF q = <<>> THEN 0 ELSE Head(q) + SumSeq(Tail(q))

\* len(". ".join(sentences))
JoinLen(q) == IF q = <<>> THEN 0 ELSE SumSeq(q) + 2 * (Len(q) - 1)

\* current_chunk_sentences[-chunk_overlap//50:] if chunk_overlap > 0 else []
OverlapSentences(sents, chunk_overlap) ==
    IF chunk_overlap > 0
    THEN LET k == (0 - chunk_overlap) \div 50
             from == IF Len(sents) + k > 0 THEN Len(sents) + k ELSE 0
         IN  SubSeq(sents, from + 1, Len(sents))
    ELSE <<>>

\* (for C18) a splitter that counts a chunk id for every flush
EmitChunkCounting(st) ==
    IF st.cur_len > 0
    THEN [st EXCEPT !.chunks = Append(@,
                        [chunk_id |-> st.chunk_id, page_number |-> st.page,
                         length |-> st.cur_len - 1,
                         sentences |-> st.cur_sents]),
                    !.chunk_id = @ + 1]
    ELSE [st EXCEPT !.chunk_id = @ + 1]

\* `if current_chunk.strip(): chunks.append({...}); chunk_id += 1`.  A
\* non-empty current_chunk ends with ". ": its text, stripped, is one
\* character shorter.
EmitChunk(st) ==
    IF st.cur_len > 0
    THEN [st EXCEPT !.chunks = Append(@,
                        [chunk_id |-> st.chunk_id, page_number |-> st.page,
                         length |-> st.cur_len - 1,
                         sentences |-> st.cur_sents]),
                    !.chunk_id = @ + 1]
    ELSE st

\* The loop over the sentences of one page, from the k-th on.
RECURSIVE SplitSentences(_, _, _, _, _)
SplitSentences(st, sentences, k, chunk_size, chunk_overlap) ==
    IF k > Len(sentences) THEN st
    ELSE LET s == sentences[k]
         IN  IF s = 0
             THEN SplitSentences(st, sentences, k + 1,
                                 chunk_size, chunk_overlap)
             ELSE IF st.cur_len + s < chunk_size
             THEN SplitSentences(
                      [st EXCEPT !.cur_len = @ + s + 2,
                                 !.cur_sents = Append(@, s)],
                      sentences, k + 1, chunk_size, chunk_overlap)
             ELSE LET ov == OverlapSentences(st.cur_sents, chunk_overlap)
                  IN  SplitSentences(
                          [EmitChunk(st) EXCEPT
                              !.cur_len = JoinLen(ov) + 2 + s + 2,
                              !.cur_sents = Append(ov, s)],
                          sentences, k + 1, chunk_size, chunk_overlap)

\* The loop over the pages, from the p-th on (page_number = p).
RECURSIVE SplitPages(_, _, _, _, _)
SplitPages(st, pages, p, chunk_size, chunk_overlap) ==
    IF p > Len(pages) THEN st.chunks
    ELSE SplitPages(
             EmitChunk(SplitSentences(
                 [st EXCEPT !.page = p, !.cur_len = 0, !.cur_sents = <<>>],
                 pages[p], 1, chunk_size, chunk_overlap)),
             pages, p + 1, chunk_size, chunk_overlap)

TextSplitter(pages, chunk_size, chunk_overlap) ==
    SplitPages([chunks |-> <<>>, chunk_id |-> 0, page |-> 0,
                cur_len |-> 0, cur_sents |-> <<>>],
               pages, 1, chunk_size, chunk_overlap)

SentenceLengths == {0, 3, 6}

PageTexts == UNION {[1..n -> SentenceLengths] : n \in 0..MaxSentences}

\* Documents of one page, and of a page followed by a one-sentence page.
PageLists == {<<t>> : t \in PageTexts} \cup {<<t, <<3>>>> : t \in PageTexts}

TextSplitterCalls ==
    {Call("text_splitter",
          [pages |-> ps, chunk_size |-> cs, chunk_overlap |-> ov]) :
        ps \in PageLists, cs \in {5, 10}, ov \in {0, 50, 100}}

TextSplitterCall ==
    /\ calls # <<>>
    /\ calls[1].fn = "text_splitter"
    /\ ~calls[1].done
    /\ calls' = <<Returned(calls[1],
                     TextSplitter(calls[1].args.pages,
                                  calls[1].args.chunk_size,
                                  calls[1].args.chunk_overlap))>>
    /\ UNCHANGED <<webVars, dbVars, ragVars, modelVars, tasks, workers>>

\* The chunks a test creates by hand for the call document: n rows with
\* chunk_index 0..n-1 and texts of their own.
TestChunks(n) ==
    [k \in 1..n |->
        [document |-> 1, chunk_index |-> k - 1,
         lo |-> (k - 1) * (DefaultChunkSize - DefaultOverlap),
         hi |-> (k - 1) * (DefaultChunkSize - DefaultOverlap)
                    + DefaultChunkSize]]

\* What an earlier run of create_embeddings_for_document left behind:
\* nothing, the first batch (it failed in its second), or everything.
PriorRuns == {"none", "partial", "complete"}

PriorEmbeddings(n, prior) ==
    IF prior = "none" THEN <<>>
    ELSE CreateEmbeddingsForDocument(
             <<>>, TestChunks(n), 1, 1, EMBEDDING_MODEL,
             IF prior = "partial" THEN 2 ELSE 0).embeddings

CreateEmbeddingsCalls ==
    {Call("create_embeddings_for_document",
          [chunks |-> n, prior |-> pr, fail |-> f]) :
        n \in {0, 2, 3, batch_size + 1}, pr \in PriorRuns, f \in {0, 2}}

\* EmbeddingService().create_embeddings_for_document(document)
CreateEmbeddingsCall ==
    /\ calls # <<>>
    /\ calls[1].fn = "create_embeddings_for_document"
    /\ ~calls[1].done
    /\ LET m == LoadModel(cache, hub, EMBEDDING_MODEL)
           e == CreateEmbeddingsForDocument(
                    embeddings, chunks, 1, m.model, EMBEDDING_MODEL,
                    calls[1].args.fail)
       IN  /\ cache' = m.cache
           /\ embeddings' = e.embeddings
           /\ calls' = IF e.ok THEN <<Returned(calls[1], e.count)>>
                       ELSE <<Raised(calls[1])>>
    /\ UNCHANGED <<webVars, documents, chunks, ragVars, hub, tasks, workers>>

PendingCalls ==
    SimilaritySearchCalls \cup FormatSourcesCalls \cup GenerateResponseCalls
        \cup CreateChunksCalls \cup TextSplitterCalls
        \cup CreateEmbeddingsCalls

InitCalls ==
    /\ WebQuiet
    /\ documents = <<CallDocument>>
    /\ sessions = <<>>
    /\ queries = <<>>
    /\ rag_config = [u \in {} |-> None]
    /\ cache = [m \in ModelNames |-> None]
    /\ hub = 1
    /\ requests = <<>>
    /\ updates = 0
    /\ tasks = <<>>
    /\ workers = <<>>
    /\ \E c \in PendingCalls :
           /\ calls = <<c>>
           /\ IF c.fn = "create_embeddings_for_document"
              THEN /\ chunks = TestChunks(c.args.chunks)
                   /\ embeddings =
                          PriorEmbeddings(c.args.chunks, c.args.prior)
              ELSE /\ chunks = <<>>
                   /\ embeddings = <<>>

NextCalls ==
    \/ SimilaritySearchCall
    \/ FormatSourcesCall
    \/ GenerateResponseCall
    \/ CreateChunksCall
    \/ TextSplitterCall
    \/ CreateEmbeddingsCall

SpecCalls == InitCalls /\ [][NextCalls]_vars

\* ------------------------------------------------------ the rate limiter
RateLimit == 100

MaxHttp == 3

\* The Django tables empty, nothing queued, no worker, no call.
DjangoEmpty ==
    /\ documents = <<>>
    /\ chunks = <<>>
    /\ embeddings = <<>>
    /\ sessions = <<>>
    /\ queries = <<>>
    /\ rag_config = [u \in {} |-> None]
    /\ cache = [m \in ModelNames |-> None]
    /\ hub = 1
    /\ requests = <<>>
    /\ updates = 0
    /\ tasks = <<>>
    /\ workers = <<>>
    /\ calls = <<>>

\* RateLimitMiddleware.process_request up to its decision:
\* requests = cache.get(cache_key, 0), and 429 at once when requests >= 100.
ProcessRequestGet(ip) ==
    /\ Len(http) < MaxHttp
    /\ http' = Append(http,
           [ip |-> ip, requests |-> rate_limit[ip],
            state |-> IF rate_limit[ip] >= RateLimit
                      THEN "limited" ELSE "got"])
    /\ UNCHANGED <<rate_limit, admitted, flaskVars, djangoVars>>

\* The rest of process_request: cache.set(cache_key, requests + 1, 3600) with
\* the value read before, and None, so the request goes on to its view.
ProcessRequestSet(r) ==
    /\ r \in DOMAIN http
    /\ http[r].state = "got"
    /\ rate_limit' = [rate_limit EXCEPT ![http[r].ip] = http[r].requests + 1]
    /\ admitted' = [admitted EXCEPT ![http[r].ip] = @ + 1]
    /\ http' = [http EXCEPT ![r].state = "passed"]
    /\ UNCHANGED <<flaskVars, djangoVars>>

\* The cache drops the entry of an ip, 3600 s after it was last set.
CounterExpires(ip) ==
    /\ rate_limit[ip] > 0
    /\ rate_limit' = [rate_limit EXCEPT ![ip] = 0]
    /\ admitted' = [admitted EXCEPT ![ip] = 0]
    /\ UNCHANGED <<http, flaskVars, djangoVars>>

\* The counter of every ip after some number of requests handled one after
\* the other since its last expiry.
EarlierRequests == {0, RateLimit - 1, RateLimit}

InitLimit ==
    /\ DjangoEmpty
    /\ FlaskEmpty
    /\ http = <<>>
    /\ \E n \in [ClientIPs -> EarlierRequests] :
           /\ rate_limit = n
           /\ admitted = n

NextLimit ==
    \/ \E ip \in ClientIPs : ProcessRequestGet(ip)
    \/ \E r \in 1..MaxHttp : ProcessRequestSet(r)
    \/ \E ip \in ClientIPs : CounterExpires(ip)

SpecLimit == InitLimit /\ [][NextLimit]_vars

\* --------------------------------------------------------- the Flask app
MaxUploads == 2

MaxChats == 1

\* upload_file, for one allowed file: the Document row with status
\* 'uploaded' (no embedding_path yet) and the background thread, started.
NewDocumentReady == [row |-> TRUE, status |-> "ready", embedding_path |-> FALSE]

NewDocument == [row |-> TRUE, status |-> "uploaded", embedding_path |-> FALSE]

UploadFile ==
    /\ Len(flask_documents) < MaxUploads
    /\ flask_documents' = Append(flask_documents, NewDocument)
    /\ threads' = Append(threads, "start")
    /\ UNCHANGED <<embedding_files, chat_sessions, chat_messages, chats,
                   limitVars, djangoVars>>

\* process_document_async, first part: Document.query.get; return when the
\* row is gone, else status 'processing', committed.
ThreadStart(d) ==
    /\ d \in DOMAIN threads
    /\ threads[d] = "start"
    /\ IF flask_documents[d].row
       THEN /\ flask_documents' =
                   [flask_documents EXCEPT ![d].status = "processing"]
            /\ threads' = [threads EXCEPT ![d] = "processing"]
       ELSE /\ threads' = [threads EXCEPT ![d] = "done"]
            /\ UNCHANGED flask_documents
    /\ UNCHANGED <<embedding_files, chat_sessions, chat_messages, chats,
                   limitVars, djangoVars>>

\* RAGEngine.process_document: no success when the models are not loaded,
\* when the PDF gives no text or no chunk, or on an exception; else the file
\* embeddings/<document_id>.pkl is written.
ProcessFaults == {"none", "models", "pdf"}

EngineProcessDocument(files, d, fault) ==
    IF fault = "none"
    THEN [success |-> TRUE, files |-> files \cup {d}]
    ELSE [success |-> FALSE, files |-> files]

\* process_document_async, the rest: process_document, then 'ready' with the
\* embedding_path or 'error', committed. The commit of a row that was deleted
\* meanwhile updates nothing and raises; the except branch finds no row.
ThreadFinish(d, fault) ==
    /\ d \in DOMAIN threads
    /\ threads[d] = "processing"
    /\ LET result == EngineProcessDocument(embedding_files, d, fault)
       IN  /\ embedding_files' = result.files
           /\ flask_documents' =
                  IF flask_documents[d].row
                  THEN [flask_documents EXCEPT ![d] =
                           [row |-> TRUE,
                            status |-> IF result.success
                                       THEN "ready" ELSE "error",
                            embedding_path |-> result.success]]
                  ELSE flask_documents
    /\ threads' = [threads EXCEPT ![d] = "done"]
    /\ UNCHANGED <<chat_sessions, chat_messages, chats, limitVars,
                   djangoVars>>

\* chat_interface: 404 without the row, a redirect unless 'ready'; else the
\* chat session of the document is read or, when there is none, created.
\* (A session is named by its document: ids are UUIDs, never used twice.)
ChatInterface(d) ==
    /\ d \in DOMAIN flask_documents
    /\ flask_documents[d].row
    /\ flask_documents[d].status = "ready"
    /\ d \notin chat_sessions
    /\ chat_sessions' = chat_sessions \cup {d}
    /\ UNCHANGED <<flask_documents, threads, embedding_files, chat_messages,
                   chats, limitVars, djangoVars>>

\* api_chat up to the commit of the user message: 404 without the document
\* or the session, 400 unless the document is 'ready' (neither changes
\* anything). The session is not compared with the document.
ApiChatBegin(d, s) ==
    /\ Len(chats) < MaxChats
    /\ d \in DOMAIN flask_documents
    /\ flask_documents[d].row
    /\ s \in chat_sessions
    /\ flask_documents[d].status = "ready"
    /\ chats' = Append(chats,
           [document |-> d, session |-> s, state |-> "saved"])
    /\ chat_messages' = chat_messages \cup
           {[session |-> s, is_user |-> TRUE, chat |-> Len(chats) + 1]}
    /\ UNCHANGED <<flask_documents, threads, embedding_files, chat_sessions,
                   limitVars, djangoVars>>

\* RAGEngine.retrieve_relevant_chunks: [] without the embedding file or on
\* an exception, else the top chunks of the file (here one, by its length).
ChatFaults == {"none", "retrieve", "generate"}

RetrieveRelevantChunks(files, d, fault) ==
    IF d \notin files \/ fault = "retrieve" THEN <<>> ELSE <<PreviewChars>>

\* api_chat, the rest: generate_response, and only on success the assistant
\* message; else 500 and nothing more is saved.
ApiChatFinish(c, fault) ==
    /\ c \in DOMAIN chats
    /\ chats[c].state = "saved"
    /\ LET relevant == RetrieveRelevantChunks(
                           embedding_files, chats[c].document, fault)
           response_data == EngineGenerateResponse(TRUE, relevant)
           success == response_data.success /\ fault # "generate"
       IN  /\ chat_messages' =
                  IF success
                  THEN chat_messages \cup
                           {[session |-> chats[c].session,
                             is_user |-> FALSE, chat |-> c]}
                  ELSE chat_messages
           /\ chats' = [chats EXCEPT
                  ![c].state = IF success THEN "answered" ELSE "failed"]
    /\ UNCHANGED <<flask_documents, threads, embedding_files, chat_sessions,
                   limitVars, djangoVars>>

\* delete_document: 404 without the row; else the sessions of the document
\* and their messages, the file at document.embedding_path when the row has
\* one, and the row itself.
Deleted == [row |-> FALSE, status |-> "deleted", embedding_path |-> FALSE]

DeleteDocument(d) ==
    /\ d \in DOMAIN flask_documents
    /\ flask_documents[d].row
    /\ chat_messages' = {m \in chat_messages : m.session # d}
    /\ chat_sessions' = chat_sessions \ {d}
    /\ embedding_files' =
           IF flask_documents[d].embedding_path
           THEN embedding_files \ {d} ELSE embedding_files
    /\ flask_documents' = [flask_documents EXCEPT ![d] = Deleted]
    /\ UNCHANGED <<threads, chats, limitVars, djangoVars>>

InitFlask ==
    /\ DjangoEmpty
    /\ WebQuiet

NextFlask ==
    \/ UploadFile
    \/ \E d \in 1..MaxUploads : ThreadStart(d)
    \/ \E d \in 1..MaxUploads, f \in ProcessFaults : ThreadFinish(d, f)
    \/ \E d \in 1..MaxUploads : ChatInterface(d)
    \/ \E d \in 1..MaxUploads, s \in 1..MaxUploads : ApiChatBegin(d, s)
    \/ \E c \in 1..MaxChats, f \in ChatFaults : ApiChatFinish(c, f)
    \/ \E d \in 1..MaxUploads : DeleteDocument(d)

\* A started thread runs to its end.
ThreadsRun ==
    \A d \in 1..MaxUploads :
        /\ WF_vars(ThreadStart(d))
        /\ WF_vars(\E f \in ProcessFaults : ThreadFinish(d, f))

SpecFlask == InitFlask /\ [][NextFlask]_vars /\ ThreadsRun

\* ================================================================ claims
\* The requests that were answered by process_query (not 404).
Answered == {r \in DOMAIN requests :
                requests[r].state = "done" /\ requests[r].status # 404}

\* C1: a query on a session whose document set is empty finds nothing:
\* chunks_found = 0, chunks_used = 0, no sources and the fixed
\* no-relevant-information answer, whatever else is indexed.
C1_EmptySessionFindsNothing ==
    \A r \in Answered :
        (requests[r].row # 0
            /\ sessions[requests[r].session].documents = {}) =>
        LET row == queries[requests[r].row]
        IN  /\ row.metadata.chunks_found = 0
            /\ row.metadata.chunks_used = 0
            /\ row.sources = <<>>
            /\ row.response_text = "no_relevant_information"

\* The vector stored for chunk c under the service's model.
Stored(embs, c) ==
    {embs[i].embedding_vector : i \in EmbeddingsFor(embs, c, EMBEDDING_MODEL)}

\* C3: when a vector is written for a (chunk, model) pair, the pair's
\* stored vector is afterwards the one written: each time a worker's
\* get_or_create for a chunk returns, the stored vector is the worker's.
C3_ReindexingReplaces ==
    [][\A w \in DOMAIN workers :
          (workers[w].pc \in {"get", "create"} /\ workers'[w] # workers[w]
           /\ workers'[w] = NextChunk(workers[w]))
          => LET wk == workers[w]
                 c == wk.list[wk.k]
             IN  Stored(embeddings', c) =
                     {Encode(wk.model, ChunkCode(chunks[c]))}]_vars

\* C4: the index holds at most one vector per (chunk, embedding model).
C4_OneVectorPerChunkAndModel ==
    \A i, j \in DOMAIN embeddings :
        (/\ embeddings[i].chunk = embeddings[j].chunk
         /\ embeddings[i].embedding_model = embeddings[j].embedding_model)
        => i = j

\* C4 witness: a worker is about to insert the vector of a chunk for which,
\* since its own lookup found none, another worker has stored one.
C4_Witness ==
    \E w \in DOMAIN workers :
        /\ workers[w].pc = "create"
        /\ EmbeddingsFor(embeddings, workers[w].list[workers[w].k],
                         EMBEDDING_MODEL) # {}
        /\ C4_OneVectorPerChunkAndModel

\* C5: model loading is single-flight: of the generators made for one model
\* name while it is not cached, at most one loads the model, and every
\* generator holds the model that is in the cache.
C5_SingleFlightLoad ==
    \A name \in ModelNames :
        LET made == {w \in DOMAIN workers :
                        workers[w].pc # "idle" /\ workers[w].name = name}
        IN  /\ Cardinality({w \in made : workers[w].did_load}) <= 1
            /\ \A w \in made :
                   workers[w].pc = "ready" => workers[w].model = cache[name]

C7_SnapshotIsWhatWasUsed ==
    \A r \in Answered :
        requests[r].row # 0 =>
        LET snap == queries[requests[r].row].metadata.config
        IN  /\ snap.top_k = requests[r].config.top_k
            /\ snap.similarity_threshold =
                   requests[r].config.similarity_threshold
            /\ snap.model_name = requests[r].embedded_with

\* C8: a session exists only for a call whose ids are all documents of the
\* caller that are chunked and indexed ('completed').
C8_SessionOnlyOverValidDocuments ==
    \A s \in DOMAIN sessions :
        \A d \in sessions[s].requested :
            /\ d \in DOMAIN documents
            /\ documents[d].user = sessions[s].user
            /\ documents[d].processing_status = "completed"

\* C2: processing an already ingested document again succeeds and leaves
\* its chunks as they were: a run of process_document_task that meets no
\* fault of its own on a document that has chunks ends 'completed' with the
\* chunk table unchanged.
C2_ReingestionSucceeds ==
    [][\A t \in DOMAIN tasks :
          (/\ tasks[t].kind = "process"
           /\ tasks[t].state = "running"
           /\ tasks'[t].state # "running"
           /\ tasks'[t].fault = "none"
           /\ DocChunkIds(chunks, tasks[t].document) # {})
          => /\ documents'[tasks[t].document].processing_status = "completed"
             /\ tasks'[t].state = "success"
             /\ chunks' = chunks]_vars

\* C9: when the embedding task of a document fails for good (its retries
\* are used up), the document's status is 'failed'.
C9_EmbeddingFailureMarksFailed ==
    [][\A t \in DOMAIN tasks :
          (/\ tasks[t].kind = "embed"
           /\ tasks[t].state = "queued"
           /\ tasks'[t].state = "failure")
          => documents'[tasks[t].document].processing_status = "failed"]_vars

\* C10: a document whose text is empty or whitespace-only never reaches
\* 'completed'.
C10_EmptyTextNeverCompleted ==
    \A d \in DOMAIN documents :
        documents[d].words = 0 =>
            documents[d].processing_status # "completed"

\* C11: every row of rag_queries has 0 <= chunks_used <= chunks_found <=
\* top_k, top_k being the one of the row's own snapshot, and as many sources
\* as chunks_used.
C11_CountsWithinTopK ==
    \A i \in DOMAIN queries :
        LET m == queries[i].metadata
        IN  /\ 0 <= m.chunks_used
            /\ m.chunks_used <= m.chunks_found
            /\ m.chunks_found <= m.config.top_k
            /\ Len(queries[i].sources) = m.chunks_used

\* The candidates of request r that are not strictly below its threshold
\* (Python's `not (score < threshold)`: a nan score is not below anything).
NotBelow(r) ==
    {p \in DOMAIN requests[r].candidates :
        ~(requests[r].candidates[p].similarity_score
              < requests[r].config.similarity_threshold)}

\* C12: the sources of a row are exactly the retrieved candidates whose
\* similarity is not strictly below the threshold, in candidate order: one
\* at the threshold is used, none below it is, none at or above is dropped.
C12_UsedAreThoseNotBelowThreshold ==
    \A r \in Answered :
        requests[r].row # 0 =>
        LET row == queries[requests[r].row]
            keep == Ascending(NotBelow(r))
        IN  /\ row.sources =
                   [k \in DOMAIN keep |-> requests[r].candidates[keep[k]]]
            /\ row.metadata.chunks_used = Len(keep)

\* C12 witness: a stored row uses a candidate whose similarity equals the
\* threshold.
C12_Witness ==
    \E r \in Answered :
        /\ requests[r].row # 0
        /\ \E k \in DOMAIN queries[requests[r].row].sources :
               queries[requests[r].row].sources[k].similarity_score =
                   requests[r].config.similarity_threshold

\* The direct calls of fn that have returned or raised.
Finished(fn) ==
    {i \in DOMAIN calls : calls[i].fn = fn /\ calls[i].done}

\* C13: similarity_search returns its results by descending similarity,
\* equal similarities in ascending input (insertion) order.  Checked on the
\* calls whose similarities are all numbers.
C13_TiesInInsertionOrder ==
    \A i \in Finished("similarity_search") :
        LET res == calls[i].result
        IN  (~calls[i].raised
             /\ \A p \in DOMAIN res : res[p].similarity # NaN) =>
            \A p, q \in DOMAIN res :
                p < q =>
                    \/ res[p].similarity > res[q].similarity
                    \/ /\ res[p].similarity = res[q].similarity
                       /\ res[p].index < res[q].index

\* C14: similarity_search over N vectors with limit top_k returns exactly
\* min(top_k, N) results, on distinct input indices, with non-increasing
\* similarity and ranks 1, 2, ... in list order.
C14_TopKResults ==
    \A i \in Finished("similarity_search") :
        LET res == calls[i].result
            n == Len(calls[i].args.document_embeddings)
        IN  /\ ~calls[i].raised
            /\ Len(res) = Min(calls[i].args.top_k, n)
            /\ \A p, q \in DOMAIN res :
                   p # q => res[p].index # res[q].index
            /\ \A p \in DOMAIN res :
                   /\ res[p].index \in 1..n
                   /\ res[p].rank = p
                   /\ p > 1 => FloatGE(res[p - 1].similarity,
                                       res[p].similarity)

\* C15: a zero-norm query or document vector gets similarity exactly 0; no
\* nan comes out of similarity_search.
C15_ZeroNormIsZero ==
    \A i \in Finished("similarity_search") :
        ~calls[i].raised =>
        \A p \in DOMAIN calls[i].result :
            LET r == calls[i].result[p]
                v == calls[i].args.document_embeddings[r.index]
            IN  /\ r.similarity # NaN
                /\ (v = <<0, 0>>
                    \/ calls[i].args.query_embedding = <<0, 0>>)
                   => r.similarity = 0

\* C16: composing over an empty list of ranked chunks is a normal outcome:
\* the fixed no-information answer and an empty source list, never an error
\* result.  Here for rag_engine's generate_response with its models loaded.
C16_EmptyCompositionIsNormal ==
    \A i \in Finished("generate_response") :
        (calls[i].args.models_loaded /\ calls[i].args.relevant = <<>>) =>
            /\ ~calls[i].raised
            /\ calls[i].result.success
            /\ calls[i].result.sources = <<>>

\* C17: every source entry's preview is at most 200 characters long, the
\* ellipsis included, and is the whole text only for a text of at most 200
\* characters.
C17_PreviewAtMost200 ==
    \A i \in Finished("_format_sources") :
        \A k \in DOMAIN calls[i].result :
            LET e == calls[i].result[k]
            IN  /\ e.preview.length <= 200
                /\ e.preview.whole <=> (e.content_length <= 200)

\* C18: the chunks produced for one document carry the indices 0..n-1 in
\* emission order, without gap or duplicate, and none has an empty text:
\* for _create_chunks and for text_splitter.
C18_DenseChunkIndices ==
    /\ \A i \in Finished("_create_chunks") :
           ~calls[i].raised =>
           \A k \in DOMAIN calls[i].result :
               /\ calls[i].result[k].chunk_index = k - 1
               /\ calls[i].result[k].hi > calls[i].result[k].lo
    /\ \A i \in Finished("text_splitter") :
           \A k \in DOMAIN calls[i].result :
               /\ calls[i].result[k].chunk_id = k - 1
               /\ calls[i].result[k].length > 0

\* C18 witness: text_splitter returned two chunks or more for a page whose
\* first sentence alone fills a chunk (the flush before it has nothing to
\* emit).
C18_Witness ==
    \E i \in Finished("text_splitter") :
        /\ Len(calls[i].result) >= 2
        /\ calls[i].args.pages[1] # <<>>
        /\ calls[i].args.pages[1][1] >= calls[i].args.chunk_size

\* C19: no chunk of text_splitter is longer than chunk_size characters,
\* unless it is made of a single sentence that alone reaches chunk_size.
C19_ChunkWithinSize ==
    \A i \in Finished("text_splitter") :
        \A k \in DOMAIN calls[i].result :
            LET c == calls[i].result[k]
            IN  \/ c.length <= calls[i].args.chunk_size
                \/ /\ Len(c.sentences) = 1
                   /\ c.sentences[1] >= calls[i].args.chunk_size

\* C20: chunking never fails and gives no chunk only for a text without
\* words: every call of _create_chunks returns, with an empty list only when
\* the text is empty or whitespace.
C20_ChunkingNeverFails ==
    \A i \in Finished("_create_chunks") :
        /\ ~calls[i].raised
        /\ calls[i].result = <<>> => calls[i].args.words = 0

\* The tunables of a RAGConfiguration.
Tunables ==
    {"chunk_size", "chunk_overlap", "top_k", "similarity_threshold",
     "max_tokens", "temperature", "model_name"}

\* C21: update_config changes only the tunables that were passed and stores
\* them; other keys are ignored without error; the owner of the row, every
\* tunable not passed and every other row stay as they were.
C21_UpdateChangesOnlyPassedTunables ==
    [][(calls' # calls /\ calls' # <<>>
        /\ calls'[1].fn = "update_config") =>
       LET u == calls'[1].args.user
           kwargs == calls'[1].args.kwargs
           before == GetUserConfig(rag_config, u)
       IN  /\ ~calls'[1].raised
           /\ DOMAIN rag_config' = DOMAIN before
           /\ \A w \in DOMAIN before \ {u} : rag_config'[w] = before[w]
           /\ \A f \in DOMAIN before[u] :
                  rag_config'[u][f] =
                      IF f \in Tunables /\ f \in DOMAIN kwargs
                      THEN kwargs[f] ELSE before[u][f]]_vars

\* C22: after create_embeddings_for_document succeeded on a document of n
\* chunks (n above the batch size too), every chunk has exactly one stored
\* vector under the model, which is the embedding of the chunk's own text,
\* and the call returned n embeddings.
C22_EveryChunkEmbeddedOnce ==
    \A i \in Finished("create_embeddings_for_document") :
        ~calls[i].raised =>
            /\ calls[i].result = calls[i].args.chunks
            /\ \A c \in DocChunkIds(chunks, 1) :
                   /\ Cardinality(EmbeddingsFor(embeddings, c,
                                                EMBEDDING_MODEL)) = 1
                   /\ Stored(embeddings, c) =
                          {Encode(hub, ChunkCode(chunks[c]))}

\* C22 witness: the call succeeded on a document of more chunks than one
\* batch holds, part of which an earlier run had embedded.
C22_Witness ==
    \E i \in Finished("create_embeddings_for_document") :
        /\ ~calls[i].raised
        /\ calls[i].args.chunks > batch_size
        /\ calls[i].args.prior = "partial"
        /\ Len(embeddings) = calls[i].args.chunks

\* C23: every source of a stored row is a chunk of a document of the
\* queried session's document set, owned by the session's user.
C23_ScopeIsolation ==
    \A r \in Answered :
        requests[r].row # 0 =>
        LET row == queries[requests[r].row]
            session == sessions[row.session]
        IN  \A k \in DOMAIN row.sources :
                /\ row.sources[k].document_id \in session.documents
                /\ documents[row.sources[k].document_id].user = session.user
                /\ chunks[row.sources[k].chunk_id].document =
                       row.sources[k].document_id

\* C24: at most one run of process_document_task is queued or executing for
\* a document at any time.
C24_OneIngestionRunPerDocument ==
    \A d \in DOMAIN documents :
        Cardinality({t \in DOMAIN tasks :
                        /\ tasks[t].kind = "process"
                        /\ tasks[t].document = d
                        /\ tasks[t].state \in {"queued", "running"}}) <= 1

\* C25: whenever a document's status is 'completed', every chunk of it has
\* a stored vector.
C25_CompletedMeansEmbedded ==
    \A d \in DOMAIN documents :
        documents[d].processing_status = "completed" =>
            \A c \in DocChunkIds(chunks, d) :
                EmbeddingsFor(embeddings, c, EMBEDDING_MODEL) # {}

\* C26: process_document_task runs at most 1 + max_retries times for one
\* submission (its retry counter never passes max_retries); the step in which
\* its last attempt fails leaves the document 'failed'; and from then on the
\* document stays 'failed' in every step that is not a reprocess of it. (The
\* Celery model has no deletion, so the missing-document case does not occur
\* in it.)
C26_BoundedRetriesThenFailed ==
    [][\A t \in DOMAIN tasks :
          tasks[t].kind = "process" =>
              LET d == tasks[t].document
                  reprocessed ==
                      /\ Len(tasks') > Len(tasks)
                      /\ tasks'[Len(tasks')].kind = "process"
                      /\ tasks'[Len(tasks')].document = d
              IN  /\ tasks'[t].retries <= max_retries
                  /\ (tasks[t].state # "failure" /\ tasks'[t].state = "failure")
                         => documents'[d].processing_status = "failed"
                  /\ (/\ tasks[t].state = "failure"
                      /\ documents[d].processing_status = "failed"
                      /\ ~reprocessed)
                         => documents'[d].processing_status = "failed"]_vars

\* C30: the rate limiter passes at most 100 requests of one ip on to a view
\* between two expiries of that ip's counter, and a request answered 429
\* changes neither the counter nor the number passed on.
C30_AtMostHundredPerWindow ==
    [][/\ \A ip \in ClientIPs : admitted'[ip] <= RateLimit
       /\ (/\ Len(http') > Len(http)
           /\ http'[Len(http')].state = "limited")
              => /\ rate_limit' = rate_limit
                 /\ admitted' = admitted]_vars

\* C27: once delete_document has removed a document, its row stays away and
\* there is no chat session, no chat message and no embedding file of that
\* document id, whatever the background thread of the upload still does.
C27_DeletedLeavesNothing ==
    [][\A d \in DOMAIN flask_documents :
          ~flask_documents[d].row =>
              /\ ~flask_documents'[d].row
              /\ d \notin chat_sessions'
              /\ \A m \in chat_messages' : m.session # d
              /\ d \notin embedding_files']_vars

\* C28: after an api_chat call has returned, its user message and its
\* assistant reply are both persisted or neither is.
C28_MessagesPaired ==
    \A c \in DOMAIN chats :
        chats[c].state # "saved" =>
            LET mine(u) == {m \in chat_messages :
                               m.chat = c /\ m.is_user = u}
            IN  Cardinality(mine(TRUE)) = Cardinality(mine(FALSE))

\* The status of a document that is there before and after a step stays or
\* moves one edge along uploaded -> processing -> ready | error, and a step
\* in which api_chat generates an answer finds its document 'ready'.
StatusStep ==
    /\ \A d \in DOMAIN flask_documents :
           (flask_documents[d].row /\ flask_documents'[d].row) =>
               \/ flask_documents'[d].status = flask_documents[d].status
               \/ <<flask_documents[d].status, flask_documents'[d].status>>
                      \in {<<"uploaded", "processing">>,
                           <<"processing", "ready">>,
                           <<"processing", "error">>}
    /\ \A c \in DOMAIN chats :
           (chats[c].state = "saved" /\ chats'[c].state = "answered") =>
               /\ flask_documents[chats[c].document].row
               /\ flask_documents[chats[c].document].status = "ready"

Uploaded(d) == d \in DOMAIN flask_documents

Settled(d) ==
    /\ d \in DOMAIN flask_documents
    /\ flask_documents[d].status \in {"ready", "error"}

Gone(d) ==
    /\ d \in DOMAIN flask_documents
    /\ ~flask_documents[d].row

\* C29, as stated: the status of every uploaded document moves only along
\* uploaded -> processing -> ready | error, ready and error are never left,
\* api_chat generates an answer only for a 'ready' document, and the
\* background run of every upload eventually reaches 'ready' or 'error'.
C29_StatusLifecycle ==
    /\ [][StatusStep]_vars
    /\ \A d \in 1..MaxUploads : Uploaded(d) ~> Settled(d)

\* C29, amended: the same, except that the background run of an upload
\* eventually reaches 'ready' or 'error' or finds its document deleted.
C29_StatusLifecycleUnlessDeleted ==
    /\ [][StatusStep]_vars
    /\ \A d \in 1..MaxUploads : Uploaded(d) ~> (Settled(d) \/ Gone(d))

\* An answer was generated for a document that went through to 'ready', and
\* another upload was deleted while its thread was running.
C29_Witness ==
    /\ \E c \in DOMAIN chats :
           /\ chats[c].state = "answered"
           /\ Settled(chats[c].document)
           /\ threads[chats[c].document] = "done"
    /\ \E d \in DOMAIN flask_documents : Gone(d) /\ threads[d] = "done"

====
